---------------------------- MODULE Spec2Model ----------------------------
(***************************************************************************)
(* A* path search over a weighted grid (src/a_star.py) and the map object  *)
(* with its moving goal (src/a_star-implementation/Map.py).                *)
(*                                                                         *)
(* Several specifications share the variables:                             *)
(*   Spec        one call of a_star(map, start, goal, heuristic_mode) on a *)
(*               freshly constructed Map_Obj, one step per iteration of    *)
(*               the while loop;                                           *)
(*   WalledSpec  Spec on the maps that have a ring of walls only;          *)
(*   WideSpec    WalledSpec on maps one column wider;                      *)
(*   LongSpec    WalledSpec on maps two columns wider, goal in a corner;   *)
(*   MapSpec     a Map_Obj with a moving goal, driven by tick() calls;     *)
(*   FairMapSpec MapSpec with tick() called again and again;               *)
(*   OverlaySpec tick() calls and set_cell_value markings interleaved;     *)
(*   LookupSpec  get_cell_value(pos) calls on a freshly constructed map.   *)
(***************************************************************************)
EXTENDS Integers, Sequences, FiniteSets

(***************************************************************************)
(* Bounds of the model.                                                    *)
(***************************************************************************)
Rows == 2
Cols == 2
MaxSpecial == 2

(***************************************************************************)
(* Program constants.                                                      *)
(***************************************************************************)
Wall == -1
TickPeriod == 4
Manhattan == 1
Euclidean == 2

VARIABLES
    map_file,        \* the integer matrix read_map loads (the CSV on disk)
    task,            \* what fill_critical_positions returned at construction
    int_map,         \* Map_Obj.int_map
    str_map,         \* Map_Obj.str_map
    start_pos,       \* Map_Obj.start_pos
    goal_pos,        \* Map_Obj.goal_pos
    end_goal_pos,    \* Map_Obj.end_goal_pos
    tmp_cell_value,  \* Map_Obj.tmp_cell_value
    tick_counter,    \* Map_Obj.tick_counter
    ret,             \* the outcome of the last Map_Obj method call
    heuristic_mode,  \* a_star's argument
    nodes,           \* the Node objects pushed so far (the index is the identity)
    open_list,       \* a_star's heap, a sequence of node identities
    closed_list,     \* a_star's closed_list
    pc,              \* "idle", "loop" (in the while loop) or "done"
    result           \* what a_star returned or raised

mapVars == <<map_file, task, int_map, str_map, start_pos, goal_pos,
             end_goal_pos, tmp_cell_value, tick_counter, ret>>
searchVars == <<heuristic_mode, nodes, open_list, closed_list, pc, result>>
vars == <<mapVars, searchVars>>

(***************************************************************************)
(* The matrices a map is loaded from: cost 1 everywhere except at most     *)
(* MaxSpecial cells, each a wall or a cell of cost 2; either Rows x Cols   *)
(* as it is, or inside a ring of walls, as the maps of the tasks are.  A   *)
(* matrix is a sequence of rows, element [r + 1][c + 1] being cell (r, c). *)
(***************************************************************************)
Cells == (0 .. Rows - 1) \X (0 .. Cols - 1)
SpecialValues == {Wall, 2}
Layouts ==
    UNION { { [c \in Cells |-> IF c \in S THEN f[c] ELSE 1] : f \in [S -> SpecialValues] }
            : S \in { T \in SUBSET Cells : Cardinality(T) <= MaxSpecial } }

OpenGrid(g) == [r \in 1 .. Rows |-> [c \in 1 .. Cols |-> g[<<r - 1, c - 1>>]]]

WalledGrid(g) ==
    [r \in 1 .. Rows + 2 |-> [c \in 1 .. Cols + 2 |->
        IF r = 1 \/ r = Rows + 2 \/ c = 1 \/ c = Cols + 2
        THEN Wall ELSE g[<<r - 2, c - 2>>]]]

OpenGrids == { OpenGrid(g) : g \in Layouts }
WalledGrids == { WalledGrid(g) : g \in Layouts }
Grids == OpenGrids \cup WalledGrids

NRows(m) == Len(m)
NCols(m) == Len(m[1])
CellsOf(m) == (0 .. NRows(m) - 1) \X (0 .. NCols(m) - 1)
Free(m) == { c \in CellsOf(m) : m[c[1] + 1][c[2] + 1] # Wall }

Abs(x) == IF x < 0 THEN -x ELSE x

(***************************************************************************)
(* Map_Obj.read_map: the symbol shown for a loaded value.                  *)
(***************************************************************************)
IntStr(v) ==
    CASE v = -1 -> "-1"
      [] v = 0 -> "0"
      [] v = 1 -> "1"
      [] v = 2 -> "2"
      [] v = 3 -> "3"
      [] v = 4 -> "4"
      [] OTHER -> "n"

read_map_symbol(v) ==
    CASE v = -1 -> " # "
      [] v = 1 -> " . "
      [] v = 2 -> " , "
      [] v = 3 -> " : "
      [] v = 4 -> " ; "
      [] OTHER -> IntStr(v)

(***************************************************************************)
(* Indexing a numpy array m with pos: an index i of an axis of length n is *)
(* accepted when -n <= i < n, a negative one counting from the end; any    *)
(* other index raises IndexError.                                          *)
(***************************************************************************)
IndexOK(m, pos) ==
    /\ -NRows(m) <= pos[1] /\ pos[1] < NRows(m)
    /\ -NCols(m) <= pos[2] /\ pos[2] < NCols(m)

WrapIndex(i, n) == IF i < 0 THEN i + n ELSE i

At(m, pos) == m[WrapIndex(pos[1], NRows(m)) + 1][WrapIndex(pos[2], NCols(m)) + 1]

Put(m, pos, value) ==
    [m EXCEPT ![WrapIndex(pos[1], NRows(m)) + 1][WrapIndex(pos[2], NCols(m)) + 1] = value]

(***************************************************************************)
(* Map_Obj.get_cell_value(pos), where it does not raise.                   *)
(***************************************************************************)
get_cell_value(pos) == At(int_map, pos)

(***************************************************************************)
(* Map_Obj.set_cell_value with str_map = True (its default): the string    *)
(* map after the call.                                                     *)
(***************************************************************************)
set_cell_value(smap, pos, value) == Put(smap, pos, value)

(***************************************************************************)
(* Map_Obj.__init__: the object built from the loaded matrix and the       *)
(* positions of the task.                                                  *)
(***************************************************************************)
NoRet == [op |-> "none", arg |-> <<0, 0>>, raised |-> FALSE, value |-> 0]

MapConstructed(grid, s, g, e) ==
    /\ map_file = grid
    /\ task = [start_pos |-> s, goal_pos |-> g, end_goal_pos |-> e]
    /\ start_pos = s
    /\ goal_pos = g
    /\ end_goal_pos = e
    /\ int_map = grid
    /\ tmp_cell_value = At(grid, g)
    /\ str_map = set_cell_value(
                     set_cell_value(
                         [r \in 1 .. NRows(grid) |-> [c \in 1 .. NCols(grid) |->
                             read_map_symbol(grid[r][c])]],
                         s, " S "),
                     g, " G ")
    /\ tick_counter = 0
    /\ ret = NoRet

\* pick_move with the column compared before the row
pick_move_columns_first ==
    IF goal_pos[2] < end_goal_pos[2] THEN <<goal_pos[1], goal_pos[2] + 1>>
    ELSE IF goal_pos[2] > end_goal_pos[2] THEN <<goal_pos[1], goal_pos[2] - 1>>
    ELSE IF goal_pos[1] < end_goal_pos[1] THEN <<goal_pos[1] + 1, goal_pos[2]>>
    ELSE <<goal_pos[1] - 1, goal_pos[2]>>

(***************************************************************************)
(* Map_Obj.pick_move: the next cell of the goal, rows first.               *)
(***************************************************************************)
pick_move ==
    IF goal_pos[1] < end_goal_pos[1] THEN <<goal_pos[1] + 1, goal_pos[2]>>
    ELSE IF goal_pos[1] > end_goal_pos[1] THEN <<goal_pos[1] - 1, goal_pos[2]>>
    ELSE IF goal_pos[2] < end_goal_pos[2] THEN <<goal_pos[1], goal_pos[2] + 1>>
    ELSE <<goal_pos[1], goal_pos[2] - 1>>

(***************************************************************************)
(* Map_Obj.replace_map_values: the symbol written at the vacated cell.     *)
(***************************************************************************)
replace_symbol(value) ==
    CASE value = 1 -> " . "
      [] value = 2 -> " , "
      [] value = 3 -> " : "
      [] value = 4 -> " ; "
      [] OTHER -> IntStr(value)

\* move_goal_pos restoring the vacated cell with the value read at the new cell
move_goal_pos_saved_late(pos) ==
    LET tmp_val == get_cell_value(pos)
        tmp_pos == goal_pos
    IN  /\ tmp_cell_value' = get_cell_value(pos)
        /\ goal_pos' = pos
        /\ int_map' = Put(int_map, tmp_pos, tmp_val)
        /\ str_map' = Put(Put(str_map, tmp_pos, replace_symbol(tmp_val)), pos, " G ")

(***************************************************************************)
(* Map_Obj.move_goal_pos(pos), with the replace_map_values call it ends    *)
(* with.                                                                   *)
(***************************************************************************)
move_goal_pos(pos) ==
    LET tmp_val == tmp_cell_value
        tmp_pos == goal_pos
    IN  /\ tmp_cell_value' = get_cell_value(pos)
        /\ goal_pos' = pos
        /\ int_map' = Put(int_map, tmp_pos, tmp_val)
        /\ str_map' = Put(Put(str_map, tmp_pos, replace_symbol(tmp_val)), pos, " G ")

\* tick without the test that the goal is at the end goal
tick_without_arrival_test ==
    /\ pc = "idle"
    /\ IF tick_counter % TickPeriod = 0
       THEN /\ move_goal_pos(pick_move)
            /\ tick_counter' = tick_counter + 1
            /\ ret' = [op |-> "tick", arg |-> goal_pos', raised |-> FALSE, value |-> 0]
       ELSE /\ tick_counter' = tick_counter + 1
            /\ ret' = [op |-> "tick", arg |-> goal_pos, raised |-> FALSE, value |-> 0]
            /\ UNCHANGED <<goal_pos, tmp_cell_value, int_map, str_map>>
    /\ UNCHANGED <<map_file, task, start_pos, end_goal_pos, searchVars>>

(***************************************************************************)
(* Map_Obj.tick.  The two early returns leave tick_counter as it is.       *)
(***************************************************************************)
tick ==
    /\ pc = "idle"
    /\ IF tick_counter % TickPeriod = 0
       THEN IF end_goal_pos = goal_pos
            THEN /\ ret' = [op |-> "tick", arg |-> goal_pos, raised |-> FALSE, value |-> 0]
                 /\ UNCHANGED <<goal_pos, tmp_cell_value, int_map, str_map, tick_counter>>
            ELSE /\ move_goal_pos(pick_move)
                 /\ tick_counter' = tick_counter + 1
                 /\ ret' = [op |-> "tick", arg |-> goal_pos', raised |-> FALSE, value |-> 0]
       ELSE /\ tick_counter' = tick_counter + 1
            /\ ret' = [op |-> "tick", arg |-> goal_pos, raised |-> FALSE, value |-> 0]
            /\ UNCHANGED <<goal_pos, tmp_cell_value, int_map, str_map>>
    /\ UNCHANGED <<map_file, task, start_pos, end_goal_pos, searchVars>>

(***************************************************************************)
(* A call set_cell_value(pos, ' G ') by the driving code, as __main__      *)
(* marks the cells of a path: str_map is True by default, so the string    *)
(* map is written and the integer map is not.                              *)
(***************************************************************************)
PathMarker == " G "

call_set_cell_value(pos, value) ==
    /\ pc = "idle"
    /\ str_map' = set_cell_value(str_map, pos, value)
    /\ ret' = [op |-> "set_cell_value", arg |-> pos, raised |-> FALSE, value |-> 0]
    /\ UNCHANGED <<map_file, task, int_map, start_pos, goal_pos, end_goal_pos,
                   tmp_cell_value, tick_counter, searchVars>>

(***************************************************************************)
(* A call get_cell_value(pos) by the driving code.                         *)
(***************************************************************************)
Probes == (-Rows - 1 .. Rows) \X (-Cols - 1 .. Cols)

call_get_cell_value(pos) ==
    /\ pc = "idle"
    /\ ret' = IF IndexOK(int_map, pos)
              THEN [op |-> "get_cell_value", arg |-> pos, raised |-> FALSE,
                    value |-> get_cell_value(pos)]
              ELSE [op |-> "get_cell_value", arg |-> pos, raised |-> TRUE, value |-> 0]
    /\ UNCHANGED <<map_file, task, int_map, str_map, start_pos, goal_pos,
                   end_goal_pos, tmp_cell_value, tick_counter, searchVars>>


(***************************************************************************)
(* Node: the fields a Node holds once a_star has filled them in.  parent   *)
(* is the identity of the parent node, 0 for None.                         *)
(***************************************************************************)
Node(position, parent, actual, h) ==
    [position |-> position, parent |-> parent, actual |-> actual,
     heuristic |-> h, total |-> actual + h]

\* __lt__ with the comparison the other way round
Node_lt_reversed(ns, a, b) == ns[a].total > ns[b].total

\* Node.__lt__
Node_lt(ns, a, b) == ns[a].total < ns[b].total

(***************************************************************************)
(* heuristic(node, goal_node, mode)                                        *)
(***************************************************************************)
heuristic(position, goal, mode) ==
    LET x == Abs(position[1] - goal[1])
        y == Abs(position[2] - goal[2])
    IN  IF mode = Manhattan THEN x + y ELSE x * x + y * y

(***************************************************************************)
(* heapq on a Python list; position p of the list is element p + 1 of the  *)
(* sequence.  Items are compared with Node.__lt__ only.                    *)
(***************************************************************************)
Swap(heap, p, q) == [heap EXCEPT ![p + 1] = heap[q + 1], ![q + 1] = heap[p + 1]]

RECURSIVE siftdown(_, _, _, _)
siftdown(ns, heap, startpos, pos) ==
    IF pos > startpos
    THEN LET parentpos == (pos - 1) \div 2
         IN  IF Node_lt(ns, heap[pos + 1], heap[parentpos + 1])
             THEN siftdown(ns, Swap(heap, pos, parentpos), startpos, parentpos)
             ELSE heap
    ELSE heap

RECURSIVE siftup_leaf(_, _, _)
siftup_leaf(ns, heap, pos) ==
    LET childpos == 2 * pos + 1
        rightpos == childpos + 1
    IN  IF childpos < Len(heap)
        THEN LET c == IF rightpos < Len(heap)
                         /\ ~ Node_lt(ns, heap[childpos + 1], heap[rightpos + 1])
                      THEN rightpos ELSE childpos
             IN  siftup_leaf(ns, Swap(heap, pos, c), c)
        ELSE <<heap, pos>>

siftup(ns, heap, pos) ==
    LET moved == siftup_leaf(ns, heap, pos)
    IN  siftdown(ns, moved[1], pos, moved[2])

heappush(ns, heap, item) ==
    LET h == Append(heap, item)
    IN  siftdown(ns, h, 0, Len(h) - 1)

\* heappop: the list it leaves; the item it returns is heap[1]
heappop(ns, heap) ==
    LET lastelt == heap[Len(heap)]
        h == SubSeq(heap, 1, Len(heap) - 1)
    IN  IF h # <<>> THEN siftup(ns, [h EXCEPT ![1] = lastelt], 0) ELSE h

(***************************************************************************)
(* path_to_goal(node): the positions up the parent chain, reversed.        *)
(***************************************************************************)
RECURSIVE parent_chain(_, _)
parent_chain(ns, n) ==
    IF n = 0 THEN <<>> ELSE <<ns[n].position>> \o parent_chain(ns, ns[n].parent)

Reverse(s) == [i \in 1 .. Len(s) |-> s[Len(s) + 1 - i]]

\* path_to_goal without the reversal of line 154
path_to_goal_unreversed(ns, n) == parent_chain(ns, n)

path_to_goal(ns, n) == Reverse(parent_chain(ns, n))

(***************************************************************************)
(* a_star, lines 94-105: the child positions in the order of the for loop, *)
(* and the ones kept (not a wall).                                         *)
(***************************************************************************)
Directions == << <<0, 1>>, <<1, 0>>, <<0, -1>>, <<-1, 0>> >>

\* the children with the first direction a diagonal one
child_positions_diagonal(position) ==
    [i \in 1 .. Len(Directions) |->
        IF i = 1 THEN <<position[1] + 1, position[2] + 1>>
        ELSE <<position[1] + Directions[i][2], position[2] + Directions[i][1]>>]

child_positions(position) ==
    [i \in 1 .. Len(Directions) |->
        <<position[1] + Directions[i][2], position[2] + Directions[i][1]>>]

InSeq(x, s) == \E i \in 1 .. Len(s) : s[i] = x

(***************************************************************************)
(* add_costs(map, child, child_position, current_node, goal_node, mode):   *)
(* the child as pushed.  child_position is a_star's loop variable, which   *)
(* after the for loop of lines 96-105 holds the last position generated.   *)
(***************************************************************************)
add_costs(ns, child, child_position, current_node, goal, mode) ==
    Node(child, current_node,
         ns[current_node].actual + get_cell_value(child_position),
         heuristic(child, goal, mode))

(***************************************************************************)
(* a_star, lines 108-116: the loop over children, from child i on.         *)
(* Returns <<nodes, open_list>>.                                           *)
(***************************************************************************)
RECURSIVE push_children(_, _, _, _, _, _, _)
push_children(ns, heap, closed, children, i, child_position, current_node) ==
    IF i > Len(children) THEN <<ns, heap>>
    ELSE IF InSeq(children[i], closed)
         THEN push_children(ns, heap, closed, children, i + 1, child_position, current_node)
         ELSE LET child == Len(ns) + 1
                  ns1 == Append(ns, add_costs(ns, children[i], child_position,
                                              current_node, goal_pos, heuristic_mode))
                  heap1 == IF ~ InSeq(child, heap) THEN heappush(ns1, heap, child) ELSE heap
              IN  push_children(ns1, heap1, closed, children, i + 1, child_position,
                                current_node)

Running == [kind |-> "running", path |-> <<>>]
NoPath == [kind |-> "None", path |-> <<>>]
Raised == [kind |-> "IndexError", path |-> <<>>]
Path(p) == [kind |-> "path", path |-> p]

(***************************************************************************)
(* a_star(map, start, goal, heuristic_mode) is called as in __main__, with *)
(* the map's start and goal positions.  The state after line 80.           *)
(***************************************************************************)
a_star_called(mode) ==
    /\ heuristic_mode = mode
    /\ nodes = <<Node(start_pos, 0, 0, 0)>>
    /\ open_list = <<1>>
    /\ closed_list = <<>>
    /\ pc = "loop"
    /\ result = Running

(***************************************************************************)
(* One iteration of the while loop of a_star (lines 83-116).               *)
(***************************************************************************)
a_star_iteration ==
    /\ pc = "loop"
    /\ open_list # <<>>
    /\ LET current_node == open_list[1]
           position == nodes[current_node].position
           popped == heappop(nodes, open_list)
           closed == Append(closed_list, position)
           cands == child_positions(position)
       IN  /\ closed_list' = closed
           /\ IF position = goal_pos
              THEN /\ result' = Path(path_to_goal(nodes, current_node))
                   /\ pc' = "done"
                   /\ open_list' = popped
                   /\ nodes' = nodes
              ELSE IF \E i \in 1 .. Len(cands) : ~ IndexOK(int_map, cands[i])
              THEN /\ result' = Raised
                   /\ pc' = "done"
                   /\ open_list' = popped
                   /\ nodes' = nodes
              ELSE LET children == SelectSeq(cands, LAMBDA c : get_cell_value(c) # Wall)
                       pushed == push_children(nodes, popped, closed, children, 1,
                                               cands[Len(cands)], current_node)
                   IN  /\ nodes' = pushed[1]
                       /\ open_list' = pushed[2]
                       /\ UNCHANGED <<pc, result>>
    /\ UNCHANGED <<mapVars, heuristic_mode>>

(***************************************************************************)
(* The while loop ends with the open list empty: line 119.                 *)
(***************************************************************************)
a_star_exhausted ==
    /\ pc = "loop"
    /\ open_list = <<>>
    /\ result' = NoPath
    /\ pc' = "done"
    /\ UNCHANGED <<mapVars, heuristic_mode, nodes, open_list, closed_list>>

Idle ==
    /\ heuristic_mode = Manhattan
    /\ nodes = <<>>
    /\ open_list = <<>>
    /\ closed_list = <<>>
    /\ pc = "idle"
    /\ result = Running

(***************************************************************************)
(* Spec: a_star on a fresh map whose end goal is its goal (tasks 1 to 4).  *)
(***************************************************************************)
Init ==
    \E grid \in Grids :
        \E s \in Free(grid), g \in Free(grid), mode \in {Manhattan, Euclidean} :
            /\ MapConstructed(grid, s, g, g)
            /\ a_star_called(mode)

Next == a_star_iteration \/ a_star_exhausted

Spec == Init /\ [][Next]_vars

(***************************************************************************)
(* WalledSpec: the same call on a map inside a ring of walls, where no     *)
(* neighbour of a cell the search reaches lies outside the matrix.         *)
(***************************************************************************)
WalledInit ==
    \E grid \in WalledGrids :
        \E s \in Free(grid), g \in Free(grid), mode \in {Manhattan, Euclidean} :
            /\ MapConstructed(grid, s, g, g)
            /\ a_star_called(mode)

WalledNext == a_star_iteration \/ a_star_exhausted

WalledSpec == WalledInit /\ [][WalledNext]_vars

(***************************************************************************)
(* WideSpec: the same call on the wall-ringed maps one column wider,       *)
(* Rows x (Cols + 1) inside the ring, where two routes of different length *)
(* lead to one cell.                                                       *)
(***************************************************************************)
WideCells == (0 .. Rows - 1) \X (0 .. Cols)
WideLayouts ==
    UNION { { [c \in WideCells |-> IF c \in S THEN f[c] ELSE 1] : f \in [S -> SpecialValues] }
            : S \in { T \in SUBSET WideCells : Cardinality(T) <= MaxSpecial } }

WideWalledGrid(g) ==
    [r \in 1 .. Rows + 2 |-> [c \in 1 .. Cols + 3 |->
        IF r = 1 \/ r = Rows + 2 \/ c = 1 \/ c = Cols + 3
        THEN Wall ELSE g[<<r - 2, c - 2>>]]]

WideWalledGrids == { WideWalledGrid(g) : g \in WideLayouts }

WideInit ==
    \E grid \in WideWalledGrids :
        \E s \in Free(grid), g \in Free(grid), mode \in {Manhattan, Euclidean} :
            /\ MapConstructed(grid, s, g, g)
            /\ a_star_called(mode)

WideNext == a_star_iteration \/ a_star_exhausted

WideSpec == WideInit /\ [][WideNext]_vars

(***************************************************************************)
(* LongSpec: the same call on the wall-ringed maps two columns wider,      *)
(* Rows x (Cols + 2) inside the ring, with the goal in the first cell      *)
(* inside the ring: the frontier comes to hold nodes of equal total and    *)
(* different actual cost.                                                  *)
(***************************************************************************)
LongCells == (0 .. Rows - 1) \X (0 .. Cols + 1)
LongLayouts ==
    UNION { { [c \in LongCells |-> IF c \in S THEN f[c] ELSE 1] : f \in [S -> SpecialValues] }
            : S \in { T \in SUBSET LongCells : Cardinality(T) <= MaxSpecial } }

LongWalledGrid(g) ==
    [r \in 1 .. Rows + 2 |-> [c \in 1 .. Cols + 4 |->
        IF r = 1 \/ r = Rows + 2 \/ c = 1 \/ c = Cols + 4
        THEN Wall ELSE g[<<r - 2, c - 2>>]]]

LongWalledGrids == { LongWalledGrid(g) : g \in LongLayouts }

LongInit ==
    \E grid \in LongWalledGrids :
        \E s \in Free(grid), mode \in {Manhattan, Euclidean} :
            /\ <<1, 1>> \in Free(grid)
            /\ MapConstructed(grid, s, <<1, 1>>, <<1, 1>>)
            /\ a_star_called(mode)

LongNext == a_star_iteration \/ a_star_exhausted

LongSpec == LongInit /\ [][LongNext]_vars

(***************************************************************************)
(* MapSpec: a map with a moving goal (task 5) under tick() calls.          *)
(***************************************************************************)
MapInit ==
    \E grid \in OpenGrids :
        \E s \in Free(grid), g \in Free(grid), e \in Free(grid) :
            /\ MapConstructed(grid, s, g, e)
            /\ Idle

MapNext == tick

MapSpec == MapInit /\ [][MapNext]_vars

(***************************************************************************)
(* FairMapSpec: the driving loop calls tick() again and again, for as     *)
(* long as a call changes anything.  The start cell, which tick() never    *)
(* reads, is the end goal's cell.                                          *)
(***************************************************************************)
FairMapInit ==
    \E grid \in OpenGrids :
        \E g \in Free(grid), e \in Free(grid) :
            /\ MapConstructed(grid, e, g, e)
            /\ Idle

FairMapNext == tick

FairMapSpec == FairMapInit /\ [][FairMapNext]_vars /\ WF_vars(tick)

(***************************************************************************)
(* OverlaySpec: tick() calls and overlay markings in any order, on a map   *)
(* whose goal crosses the grid from the first cell to the last.  The cells *)
(* marked are those of the first column, which the goal walks down.        *)
(***************************************************************************)
MarkedCells(m) == { pos \in CellsOf(m) : pos[2] = 0 }

OverlayInit ==
    \E grid \in OpenGrids :
        \E s \in Free(grid) :
            /\ <<0, 0>> \in Free(grid)
            /\ <<Rows - 1, Cols - 1>> \in Free(grid)
            /\ MapConstructed(grid, s, <<0, 0>>, <<Rows - 1, Cols - 1>>)
            /\ Idle

OverlayNext ==
    \/ tick
    \/ \E pos \in MarkedCells(int_map) : call_set_cell_value(pos, PathMarker)

OverlaySpec == OverlayInit /\ [][OverlayNext]_vars

(***************************************************************************)
(* LookupSpec: get_cell_value(pos) called on a fresh map.                  *)
(***************************************************************************)
LookupInit ==
    \E grid \in Grids :
        \E s \in Free(grid), g \in Free(grid) :
            /\ MapConstructed(grid, s, g, g)
            /\ Idle

LookupNext == \E pos \in Probes : call_get_cell_value(pos)

LookupSpec == LookupInit /\ [][LookupNext]_vars


(***************************************************************************)
(* What the claims speak of: orthogonal steps, the cost of a path, the     *)
(* cheapest path and the shortest path of a matrix.                        *)
(***************************************************************************)
Dist(a, b) == Abs(a[1] - b[1]) + Abs(a[2] - b[2])

InGrid(m, pos) ==
    /\ 0 <= pos[1] /\ pos[1] < NRows(m)
    /\ 0 <= pos[2] /\ pos[2] < NCols(m)

Adjacent(m, c) == { d \in Free(m) : Dist(c, d) = 1 }

Min(S) == CHOOSE x \in S : \A y \in S : x <= y

RECURSIVE SumCosts(_, _, _)
SumCosts(m, p, i) == IF i > Len(p) THEN 0 ELSE At(m, p[i]) + SumCosts(m, p, i + 1)

\* the cost of a path: the cells entered, the first cell excluded
PathCost(m, p) == SumCosts(m, p, 2)

Unreached(m) == 1 + 4 * NRows(m) * NCols(m)

RECURSIVE Relax(_, _, _)
Relax(m, dist, n) ==
    IF n = 0 THEN dist
    ELSE Relax(m,
               [c \in DOMAIN dist |->
                   Min({dist[c]} \cup { dist[d] + At(m, c) : d \in Adjacent(m, c) })],
               n - 1)

\* the least cost of an orthogonal path of free cells from s to t
MinCost(m, s, t) ==
    Relax(m, [c \in Free(m) |-> IF c = s THEN 0 ELSE Unreached(m)],
          Cardinality(Free(m)))[t]

Connected(m, s, t) == MinCost(m, s, t) < Unreached(m)

UnitCosts(m) ==
    [r \in 1 .. NRows(m) |-> [c \in 1 .. NCols(m) |-> IF m[r][c] = Wall THEN Wall ELSE 1]]

\* the breadth-first distance from s to t
BfsLength(m, s, t) == MinCost(UnitCosts(m), s, t)

Returned == pc = "done" /\ result.kind = "path"

(***************************************************************************)
(* C1.  Optimality: in Manhattan mode, when start and goal are connected,  *)
(* a_star returns a path whose cost (cells entered, start excluded) is the *)
(* least cost of any orthogonal path of free cells from start to goal.     *)
(***************************************************************************)
C1_Optimality ==
    (pc = "done" /\ heuristic_mode = Manhattan
        /\ Connected(int_map, start_pos, goal_pos))
    => /\ result.kind = "path"
       /\ PathCost(int_map, result.path) = MinCost(int_map, start_pos, goal_pos)

(***************************************************************************)
(* C2.  Endpoints: a returned path starts at start and ends at goal, and   *)
(* a call with start = goal returns the one-element path [start].          *)
(***************************************************************************)
C2_Endpoints ==
    /\ Returned =>
          /\ Len(result.path) >= 1
          /\ result.path[1] = start_pos
          /\ result.path[Len(result.path)] = goal_pos
    /\ (pc = "done" /\ start_pos = goal_pos) => result = Path(<<start_pos>>)

C2_Witness ==
    /\ Returned
    /\ Len(result.path) >= 3
    /\ result.path[1] # result.path[Len(result.path)]

(***************************************************************************)
(* C3.  Neighbours outside the grid are skipped: a_star does not fail, no  *)
(* node of the frontier lies outside [0, rows) x [0, cols), and every      *)
(* position of a returned path is a free cell of the grid.                 *)
(***************************************************************************)
C3_OutOfBoundsSkipped ==
    /\ result.kind # "IndexError"
    /\ \A i \in 1 .. Len(open_list) : InGrid(int_map, nodes[open_list[i]].position)
    /\ Returned =>
          \A i \in 1 .. Len(result.path) :
              /\ InGrid(int_map, result.path[i])
              /\ At(int_map, result.path[i]) # Wall

(***************************************************************************)
(* C4.  Contiguity: consecutive positions of a returned path differ by one *)
(* in the row and not in the column, or by one in the column and not in    *)
(* the row.                                                                *)
(***************************************************************************)
C4_Contiguity ==
    Returned =>
        \A i \in 1 .. Len(result.path) - 1 :
            LET a == result.path[i]
                b == result.path[i + 1]
            IN  \/ Abs(a[1] - b[1]) = 1 /\ a[2] = b[2]
                \/ Abs(a[2] - b[2]) = 1 /\ a[1] = b[1]

C4_Witness ==
    /\ Returned
    /\ \E i \in 1 .. Len(result.path) - 2 :
          /\ result.path[i][1] # result.path[i + 2][1]
          /\ result.path[i][2] # result.path[i + 2][2]

(***************************************************************************)
(* C5.  Unreachability: when no orthogonal path of free cells joins start  *)
(* and goal, a_star ends with the open list empty and returns None, not a  *)
(* path and not a failure.                                                 *)
(***************************************************************************)
C5_UnreachableReturnsNone ==
    (pc = "done" /\ ~ Connected(int_map, start_pos, goal_pos))
    => result = NoPath /\ open_list = <<>>

(***************************************************************************)
(* C6.  Uniform cost: on a grid whose free cells all cost 1, with start    *)
(* and goal connected, a_star in Manhattan mode returns a path with as     *)
(* many steps as the breadth-first shortest path.                          *)
(***************************************************************************)
C6_UniformCostIsBfs ==
    (pc = "done" /\ heuristic_mode = Manhattan
        /\ int_map = UnitCosts(int_map)
        /\ Connected(int_map, start_pos, goal_pos))
    => /\ result.kind = "path"
       /\ Len(result.path) - 1 = BfsLength(int_map, start_pos, goal_pos)

(***************************************************************************)
(* C7.  Cadence: from construction, every block of four tick() calls that  *)
(* starts with the goal away from the end goal relocates the goal once, in *)
(* its first call, to the cell the priority rule names (row + 1, else      *)
(* row - 1, else column + 1, else column - 1), and the vacated cell then   *)
(* holds its loaded cost.  The relocations made are the blocks begun.      *)
(***************************************************************************)
PriorityCell(g, e) ==
    IF g[1] < e[1] THEN <<g[1] + 1, g[2]>>
    ELSE IF g[1] > e[1] THEN <<g[1] - 1, g[2]>>
    ELSE IF g[2] < e[2] THEN <<g[1], g[2] + 1>>
    ELSE <<g[1], g[2] - 1>>

C7_BlocksBegun == (tick_counter + TickPeriod - 1) \div TickPeriod

C7_TickStep ==
    /\ (tick_counter % TickPeriod = 0 /\ goal_pos # end_goal_pos)
       => /\ goal_pos' = PriorityCell(goal_pos, end_goal_pos)
          /\ Dist(goal_pos, goal_pos') = 1
          /\ At(int_map', goal_pos) = At(map_file, goal_pos)
          /\ tick_counter' = tick_counter + 1
    /\ tick_counter % TickPeriod # 0
       => /\ goal_pos' = goal_pos
          /\ tick_counter' = tick_counter + 1
    /\ goal_pos = end_goal_pos => goal_pos' = goal_pos

C7_Cadence ==
    /\ [](Dist(task.goal_pos, goal_pos) = C7_BlocksBegun)
    /\ [][C7_TickStep]_vars

C7_Witness ==
    /\ tick_counter = 2 * TickPeriod
    /\ Dist(task.goal_pos, goal_pos) = 2
    /\ goal_pos = end_goal_pos

(***************************************************************************)
(* C8.  Goal validity: after any sequence of tick() calls the goal is not  *)
(* on an obstacle cell, and a tick() whose relocation would enter one      *)
(* signals it to the caller.                                               *)
(***************************************************************************)
C8_GoalNeverOnObstacle ==
    /\ At(int_map, goal_pos) # Wall
    /\ (ret.op = "tick" /\ At(int_map, ret.arg) = Wall) => ret.raised

(***************************************************************************)
(* C9.  Lookup bounds: get_cell_value(pos) fails for every pos whose row   *)
(* is outside [0, rows) or whose column is outside [0, cols); it returns   *)
(* no cell's cost for such a pos.                                          *)
(***************************************************************************)
C9_LookupOutOfBoundsFails ==
    (ret.op = "get_cell_value" /\ ~ InGrid(int_map, ret.arg)) => ret.raised

(***************************************************************************)
(* C10.  Cost accounting: every node pushed for a neighbour n of the       *)
(* current node c has actual = c.actual + cost(n), the cost of the         *)
(* neighbour's own cell.                                                   *)
(***************************************************************************)
C10_CostAccounting ==
    \A n \in 1 .. Len(nodes) :
        nodes[n].parent # 0
        => nodes[n].actual
             = nodes[nodes[n].parent].actual + At(int_map, nodes[n].position)

(***************************************************************************)
(* C11.  Node costs: every node of the frontier has total = actual +       *)
(* heuristic, with actual >= 0 and heuristic >= 0.                         *)
(***************************************************************************)
C11_NodeCosts ==
    \A i \in 1 .. Len(open_list) :
        LET n == nodes[open_list[i]]
        IN  /\ n.total = n.actual + n.heuristic
            /\ n.actual >= 0
            /\ n.heuristic >= 0

(***************************************************************************)
(* C12.  No duplicate evaluation: no position is popped from the open list *)
(* more than once, so closed_list, which every pop appends to, holds no    *)
(* position twice.                                                         *)
(***************************************************************************)
C12_NoDuplicateEvaluation ==
    \A i \in 1 .. Len(closed_list) : \A j \in 1 .. Len(closed_list) :
        closed_list[i] = closed_list[j] => i = j

(***************************************************************************)
(* C13.  Termination: a_star ends by returning a path or None; a call that *)
(* has ended has ended in one of the two, whatever the frontier held.      *)
(***************************************************************************)
C13_EndsWithPathOrNone ==
    pc = "done" => result.kind \in {"path", "None"}

(***************************************************************************)
(* C14.  Cost grid immutability: after any sequence of tick() calls and    *)
(* overlay markings the integer map equals the matrix as loaded, the cells *)
(* the goal has entered and left included.                                 *)
(***************************************************************************)
C14_CostGridImmutable == int_map = map_file

C14_Witness ==
    /\ goal_pos = end_goal_pos
    /\ Dist(task.goal_pos, goal_pos) >= 2
    /\ \E c \in CellsOf(int_map) :
          /\ c # goal_pos
          /\ c # task.goal_pos
          /\ At(str_map, c) = PathMarker
          /\ At(int_map, c) # 1

(***************************************************************************)
(* C15.  Overlay restoration: after any sequence of tick() calls the       *)
(* string map shows the goal marker at the goal cell and nowhere else, the *)
(* start marker at the start cell, and at every other cell the symbol      *)
(* read_map gave it at load time.                                          *)
(***************************************************************************)
C15_OverlayRestored ==
    \A c \in CellsOf(map_file) :
        At(str_map, c) = IF c = goal_pos THEN " G "
                         ELSE IF c = start_pos THEN " S "
                         ELSE read_map_symbol(At(map_file, c))

(***************************************************************************)
(* C16.  Goal convergence: under repeated tick() calls the goal at last    *)
(* equals the end goal; every relocation brings the goal one step nearer   *)
(* to the end goal in Manhattan distance and leaves it inside the grid;    *)
(* and once the goal equals the end goal no tick() moves it.               *)
(***************************************************************************)
C16_TickStep ==
    /\ goal_pos' # goal_pos
       => /\ Dist(goal_pos', end_goal_pos) = Dist(goal_pos, end_goal_pos) - 1
          /\ InGrid(int_map, goal_pos')
    /\ goal_pos = end_goal_pos => goal_pos' = goal_pos

C16_GoalConvergence ==
    /\ <>(goal_pos = end_goal_pos)
    /\ [][C16_TickStep]_vars

C16_Witness ==
    /\ goal_pos = end_goal_pos
    /\ task.goal_pos[1] # goal_pos[1]
    /\ task.goal_pos[2] # goal_pos[2]
    /\ tick_counter = 2 * TickPeriod
    /\ ret.op = "tick"

(***************************************************************************)
(* C17.  Frontier ordering: while the search runs, the node the next pop   *)
(* removes, the first of open_list, has a total no greater than that of    *)
(* any node of the frontier.                                               *)
(***************************************************************************)
C17_PopsMinimalTotal ==
    pc = "loop" =>
        \A i \in 1 .. Len(open_list) :
            nodes[open_list[1]].total <= nodes[open_list[i]].total

\* C17 as stated: and among the nodes tied with it on total, none has a smaller actual
C17_TiesBySmallestActual ==
    pc = "loop" =>
        \A i \in 1 .. Len(open_list) :
            /\ nodes[open_list[1]].total <= nodes[open_list[i]].total
            /\ nodes[open_list[1]].total = nodes[open_list[i]].total
               => nodes[open_list[1]].actual <= nodes[open_list[i]].actual

C17_Witness ==
    /\ pc = "loop"
    /\ Len(open_list) >= 3
    /\ Len(closed_list) >= 2
    /\ \E i \in 2 .. Len(open_list) :
          nodes[open_list[1]].total < nodes[open_list[i]].total
    /\ nodes[open_list[2]].total > nodes[open_list[3]].total

(***************************************************************************)
(* C18.  Squared Euclidean mode: every node a_star scores in mode 2 has    *)
(* the heuristic (row difference)^2 + (column difference)^2 to the goal,   *)
(* and whenever start and goal are connected a call in mode 2 returns a    *)
(* valid path: from start to goal, through free cells of the grid, by      *)
(* orthogonal steps.                                                       *)
(***************************************************************************)
C18_SquaredEuclidean ==
    heuristic_mode = Euclidean =>
        \A n \in 2 .. Len(nodes) :
            LET dr == nodes[n].position[1] - goal_pos[1]
                dc == nodes[n].position[2] - goal_pos[2]
            IN  nodes[n].heuristic = dr * dr + dc * dc

C18_ValidPath ==
    (pc = "done" /\ heuristic_mode = Euclidean
        /\ Connected(int_map, start_pos, goal_pos))
    => /\ result.kind = "path"
       /\ Len(result.path) >= 1
       /\ result.path[1] = start_pos
       /\ result.path[Len(result.path)] = goal_pos
       /\ \A i \in 1 .. Len(result.path) : result.path[i] \in Free(int_map)
       /\ \A i \in 1 .. Len(result.path) - 1 :
              Dist(result.path[i], result.path[i + 1]) = 1

C18_EuclideanTradeOff == C18_SquaredEuclidean /\ C18_ValidPath

=============================================================================
